---------------------------- MODULE Spec2Model ----------------------------
(***************************************************************************)
(* MarkdownIndexer (src/src/main.rs): the filesystem indexer, the tree     *)
(* rendering, the heading extractor and the two placeholder-block          *)
(* rewriters (gtoc, gfs), as a state machine over the files on disk.       *)
(*                                                                         *)
(* Text is a sequence of tokens.  A token is one character ("#", " ",      *)
(* "\n", "a", "A", "$", "1", ...) or one of the fixed multi-character      *)
(* strings of the program (the six markers, the glyphs of the tree         *)
(* rendering, ".md", ".git"), which occur in the model's documents only as *)
(* whole strings.  ByteLen gives a token's length in bytes.                *)
(*                                                                         *)
(* Assumed of the environment: a markdown file that was indexed can be     *)
(* read and written (fs::read_to_string and fs::write succeed), and the    *)
(* directory listing does not change between runs.                         *)
(***************************************************************************)
EXTENDS Integers, Sequences, FiniteSets, TLC

VARIABLES
    fs,               \* what fs::read_dir("./") yields: a sequence of entries
    gitignore,        \* the lines of ./.gitignore
    disk,             \* path of every markdown file |-> its text
    overflow_checks,  \* the build: TRUE panics on u8 overflow, FALSE wraps
    clock,            \* the minute Local::now() renders
    run,              \* how many times the program has run
    report            \* what the last run did (history, for the properties)

vars == <<fs, gitignore, disk, overflow_checks, clock, run, report>>

---------------------------------------------------------------------------
(* Bounds of the model.                                                    *)
MaxLines == 2
MaxEntries == 2
MaxRuns == 2
MaxClock == 2

---------------------------------------------------------------------------
(* The marker strings, main.rs:226-232.                                    *)
TOC_FIRST_PREFIX == "<!--%toc%-->"
TOC_BEGIN_PREFIX == "<!--%table_of_contents_begin%-->"
TOC_END_PREFIX == "<!--%table_of_contents_end%-->"
GFS_FIRST_PREFIX == "<!--%gfs%-->"
GFS_BEGIN_PREFIX == "<!--%file_structure_begin%-->"
GFS_END_PREFIX == "<!--%file_structure_end%-->"

(* The glyphs of FSElement::to_md, main.rs:49-68 (written in ASCII).       *)
FOLDER == "U+1F4C1"
PAGE == "U+1F4C4"
TEE == "U+251C"
ELBOW == "U+2514"
DASH == "U+2500"
VBAR == "U+2502"

ByteLen(t) ==
    CASE t = TOC_FIRST_PREFIX -> 12
      [] t = TOC_BEGIN_PREFIX -> 32
      [] t = TOC_END_PREFIX -> 30
      [] t = GFS_FIRST_PREFIX -> 12
      [] t = GFS_BEGIN_PREFIX -> 29
      [] t = GFS_END_PREFIX -> 27
      [] t \in {FOLDER, PAGE} -> 4
      [] t \in {TEE, ELBOW, DASH, VBAR} -> 3
      [] t = "&emsp;" -> 6
      [] t = ".md" -> 3
      [] t = ".git" -> 4
      [] OTHER -> 1

---------------------------------------------------------------------------
(* str operations on token sequences.                                      *)

RECURSIVE StrLen(_)
StrLen(s) == IF s = <<>> THEN 0 ELSE ByteLen(Head(s)) + StrLen(Tail(s))

\* str::starts_with
StartsWith(s, p) == Len(p) <= Len(s) /\ SubSeq(s, 1, Len(p)) = p

\* str::ends_with
EndsWith(s, p) == Len(p) <= Len(s) /\ SubSeq(s, Len(s) - Len(p) + 1, Len(s)) = p

\* str::contains: needle occurs somewhere in hay
Contains(hay, needle) ==
    \E i \in 1..(Len(hay) - Len(needle) + 1) :
        SubSeq(hay, i, i + Len(needle) - 1) = needle

\* the index of the first token tok of s at or after position from, 0 if none
Find(s, tok, from) ==
    LET at == {i \in from..Len(s) : s[i] = tok}
    IN IF at = {} THEN 0 ELSE CHOOSE i \in at : \A j \in at : i <= j

\* str::replace(from, to) for a one-token pattern: every occurrence
RECURSIVE Replace(_, _, _)
Replace(s, from, to) ==
    LET at == Find(s, from, 1)
    IN IF at = 0 THEN s
       ELSE SubSeq(s, 1, at - 1) \o to \o Replace(SubSeq(s, at + 1, Len(s)), from, to)

\* str::lines: split at "\n"; a final empty line is not a line
RECURSIVE Lines(_)
Lines(s) ==
    IF s = <<>> THEN <<>>
    ELSE LET nl == Find(s, "\n", 1)
         IN IF nl = 0 THEN <<s>>
            ELSE <<SubSeq(s, 1, nl - 1)>> \o Lines(SubSeq(s, nl + 1, Len(s)))

\* [&str]::join
RECURSIVE Join(_, _)
Join(ls, sep) ==
    IF ls = <<>> THEN <<>>
    ELSE IF Len(ls) = 1 THEN ls[1]
    ELSE ls[1] \o sep \o Join(Tail(ls), sep)

\* str::to_ascii_lowercase
ToAsciiLowercase(s) == [i \in 1..Len(s) |-> IF s[i] = "A" THEN "a" ELSE s[i]]

\* "    ".repeat(n), main.rs:153: the 4n spaces of an indentation, held as one
\* run-length token (they open a list item's line, which nothing splits)
Repeat4Spaces(n) == IF n = 0 THEN <<>> ELSE <<"    *" \o ToString(n)>>

---------------------------------------------------------------------------
(* FSElement, main.rs:18-43.                                               *)

Directory(d, name) == [tag |-> "Directory", d |-> d, name |-> name]
File(name, path, is_md) ==
    [tag |-> "File", name |-> name, path |-> path, is_md |-> is_md]

sort_value(e) == IF e.tag = "Directory" THEN 1 ELSE 0
is_dir(e) == e.tag = "Directory"

\* the connector of child number index of a directory, main.rs:55-60
Connector(d, index) == IF index = Len(d) THEN ELBOW ELSE TEE

\* FSElement::to_md, main.rs:45-72
RECURSIVE to_md(_, _)
RECURSIVE to_md_children(_, _, _)
to_md_children(d, index, dir_only) ==
    IF index > Len(d) THEN <<>>
    ELSE (IF dir_only /\ ~is_dir(d[index]) THEN <<>>
          ELSE <<Connector(d, index), DASH>> \o to_md(d[index], dir_only)
               \o <<" ", " ", "\n">>)
         \o to_md_children(d, index + 1, dir_only)
to_md(e, dir_only) ==
    IF e.tag = "Directory"
    THEN Join(Lines(<<FOLDER>> \o e.name \o <<" ", " ", "\n">>
                    \o to_md_children(e.d, 1, dir_only)),
              <<" ", " ", "\n", VBAR, "&emsp;">>)
    ELSE <<"[", PAGE>> \o e.name \o <<"]", "(", "<">>
         \o Replace(e.path, "\\", <<"/">>) \o <<">", ")">>

\* FSElement::get_markdowns, main.rs:74-96: the paths, in the order collected
RECURSIVE get_markdowns_rec(_)
get_markdowns_rec(root) ==
    IF root = <<>> THEN <<>>
    ELSE LET e == Head(root)
         IN (IF e.tag = "Directory" THEN get_markdowns_rec(e.d)
             ELSE IF e.is_md THEN <<e>> ELSE <<>>)
            \o get_markdowns_rec(Tail(root))
get_markdowns(self) ==
    IF self.tag = "Directory" THEN get_markdowns_rec(self.d) ELSE <<>>

---------------------------------------------------------------------------
(* index_filesystem, main.rs:99-141.  A listing entry is                   *)
(*   [kind, name, entries] with kind one of                                *)
(*   "err"      the iterator yields Err (main.rs:107)                      *)
(*   "badname"  file_name() is not UTF-8, to_str() is None (main.rs:113)   *)
(*   "badtype"  file_type() is Err (main.rs:117)                           *)
(*   "nolist"   a directory that fs::read_dir cannot list (main.rs:120)    *)
(*   "dir"      a directory, entries its own listing                       *)
(*   "file"     anything else                                              *)
(* The result is [panic, root_vec]: whether an unwrap panicked, and the    *)
(* children pushed onto root_fs.                                           *)

\* main.rs:114: some forbidden path e with e.contains(name)
Forbidden(forbidden_paths, name) ==
    \E i \in 1..Len(forbidden_paths) : Contains(forbidden_paths[i], name)

\* main.rs:128-130: Vec::sort_by is stable, the keys are 0 and 1
SortBySortValue(d) ==
    SelectSeq(d, LAMBDA e : sort_value(e) = 0)
    \o SelectSeq(d, LAMBDA e : sort_value(e) = 1)

\* DirEntry::path(): the directory's path joined with the name
EntryPath(dir_path, name) ==
    IF dir_path = <<".", "/">> THEN dir_path \o name
    ELSE dir_path \o <<"/">> \o name

RECURSIVE index_filesystem(_, _, _)
index_filesystem(dir, forbidden_paths, dir_path) ==
    IF dir = <<>> THEN [panic |-> FALSE, root_vec |-> <<>>]
    ELSE
    LET path == Head(dir)
        name == path.name
        rest == index_filesystem(Tail(dir), forbidden_paths, dir_path)
        skip == rest
        push(e) == [panic |-> rest.panic,
                    root_vec |-> IF rest.panic THEN <<>> ELSE <<e>> \o rest.root_vec]
        abort == [panic |-> TRUE, root_vec |-> <<>>]
    IN  IF path.kind = "err" THEN skip
        ELSE IF path.kind = "badname" THEN abort
        ELSE IF Forbidden(forbidden_paths, name) THEN skip
        ELSE IF path.kind = "badtype" THEN abort
        ELSE IF path.kind = "nolist" THEN skip
        ELSE IF path.kind = "dir"
        THEN LET sub == index_filesystem(path.entries, forbidden_paths,
                                         EntryPath(dir_path, name))
             IN IF sub.panic THEN abort
                ELSE push(Directory(SortBySortValue(sub.root_vec), name))
        ELSE push(File(name, EntryPath(dir_path, name), EndsWith(name, <<".md">>)))

---------------------------------------------------------------------------
(* The regex crate, as process_md uses it.                                 *)

\* a character a capture-group name may hold: [0-9A-Za-z_]
NameChar(t) == t \in {"a", "A", "x", "r", "d", "0", "1", "_"}

\* how many name characters rep holds from position i on
RECURSIVE NameRun(_, _)
NameRun(rep, i) ==
    IF i <= Len(rep) /\ NameChar(rep[i]) THEN 1 + NameRun(rep, i + 1) ELSE 0

\* what $name stands for: group 0 is the match, group 1 the text between the
\* markers, and a group the pattern does not have is the empty string
Group(name, g0, g1) ==
    IF name = <<"0">> THEN g0 ELSE IF name = <<"1">> THEN g1 ELSE <<>>

\* Captures::expand on a &str replacement: "$$" is "$", "$name" is the group
\* called by the longest name that follows, a "$" no name follows is itself
RECURSIVE Expand(_, _, _)
Expand(rep, g0, g1) ==
    LET at == Find(rep, "$", 1)
        n == NameRun(rep, at + 1)
    IN IF at = 0 THEN rep
       ELSE SubSeq(rep, 1, at - 1)
            \o (IF at < Len(rep) /\ rep[at + 1] = "$"
                THEN <<"$">> \o Expand(SubSeq(rep, at + 2, Len(rep)), g0, g1)
                ELSE IF n = 0
                THEN <<"$">> \o Expand(SubSeq(rep, at + 1, Len(rep)), g0, g1)
                ELSE Group(SubSeq(rep, at + 1, at + n), g0, g1)
                     \o Expand(SubSeq(rep, at + n + 1, Len(rep)), g0, g1))

\* RegionMatch with a greedy ([\S\s]*): to the last end marker
RegionMatchGreedy(content, begin, end) ==
    LET b == Find(content, begin, 1)
        ends == {i \in (b + 1)..Len(content) : content[i] = end}
        e == IF b = 0 \/ ends = {} THEN 0
             ELSE CHOOSE i \in ends : \A j \in ends : j <= i
    IN [found |-> e # 0, b |-> b, e |-> e]

\* the match of begin([\S\s]*?)end in content: [found, b, e], from the first
\* begin marker that an end marker follows to the first end marker after it
RegionMatch(content, begin, end) ==
    LET b == Find(content, begin, 1)
        e == IF b = 0 THEN 0 ELSE Find(content, end, b + 1)
    IN [found |-> e # 0, b |-> b, e |-> e]

\* Regex::replace(&content, rep): the first match is replaced by rep expanded
RegexReplace(content, begin, end, rep) ==
    LET m == RegionMatch(content, begin, end)
    IN IF ~m.found THEN content
       ELSE SubSeq(content, 1, m.b - 1)
            \o Expand(rep, SubSeq(content, m.b, m.e),
                      SubSeq(content, m.b + 1, m.e - 1))
            \o SubSeq(content, m.e + 1, Len(content))

---------------------------------------------------------------------------
(* process_md, main.rs:160-225 (gtoc).                                     *)

\* u8 subtraction of 1: [panic, v]
Sub1(v) ==
    IF v > 0 THEN [panic |-> FALSE, v |-> v - 1]
    ELSE [panic |-> overflow_checks, v |-> 255]

\* main.rs:170-178: [panic, head_lines]; a line that starts with "#" and has
\* no space makes split_once(" ").unwrap() panic
RECURSIVE ExtractHeadLines(_)
ExtractHeadLines(ls) ==
    IF ls = <<>> THEN [panic |-> FALSE, head_lines |-> <<>>]
    ELSE LET line == Head(ls)
             rest == ExtractHeadLines(Tail(ls))
             sp == Find(line, " ", 1)
         IN IF ~StartsWith(line, <<"#">>) THEN rest
            ELSE IF sp = 0 THEN [panic |-> TRUE, head_lines |-> <<>>]
            ELSE [panic |-> rest.panic,
                  head_lines |->
                      IF rest.panic THEN <<>>
                      ELSE <<[intend |-> StrLen(SubSeq(line, 1, sp - 1)) % 256,
                              title |-> SubSeq(line, sp + 1, Len(line))]>>
                           \o rest.head_lines]

\* main.rs:180-185
CountH1(head_lines) ==
    Cardinality({i \in 1..Len(head_lines) : head_lines[i].intend = 1})

\* main.rs:186-191: [panic, head_lines]
NormalizeHeadLines(head_lines) ==
    IF CountH1(head_lines) # 1 THEN [panic |-> FALSE, head_lines |-> head_lines]
    ELSE LET drained == Tail(head_lines)
         IN [panic |-> \E i \in 1..Len(drained) : Sub1(drained[i].intend).panic,
             head_lines |-> [i \in 1..Len(drained) |->
                                [intend |-> Sub1(drained[i].intend).v,
                                 title |-> drained[i].title]]]

\* HeadLine::to_md, main.rs:149-158: [panic, md]
HeadLine_to_md(h) ==
    [panic |-> Sub1(h.intend).panic,
     md |-> Repeat4Spaces(Sub1(h.intend).v)
            \o <<"-", " ", "[">> \o h.title \o <<"]", "(", "#">>
            \o Replace(ToAsciiLowercase(h.title), " ", <<"-">>)
            \o <<")", " ", " ", "\n">>]

\* Local::now().format("%d.%m.%Y %H:%M")
Timestamp(now) == <<"dd.mm.yyyy", " ", "hh:", ToString(now)>>

RECURSIVE TocItems(_)
TocItems(head_lines) ==
    IF head_lines = <<>> THEN <<>>
    ELSE HeadLine_to_md(Head(head_lines)).md \o TocItems(Tail(head_lines))

\* main.rs:193-207
TocResult(head_lines, now) ==
    <<TOC_BEGIN_PREFIX, "\n">> \o TocItems(head_lines)
    \o <<"<sup><sup>Last", " ", "update:", " ">> \o Timestamp(now)
    \o <<"</sup></sup>", "\n", TOC_END_PREFIX>>

\* main.rs:209-216
TocRep(content, result) ==
    IF Contains(content, <<TOC_FIRST_PREFIX>>)
    THEN Replace(content, TOC_FIRST_PREFIX, result)
    ELSE RegexReplace(content, TOC_BEGIN_PREFIX, TOC_END_PREFIX, result)

\* process_md on one file: what it extracted, computed and whether it wrote.
\* panic is "none", "split_once" (main.rs:172) or "overflow" (main.rs:153, 189)
process_md(path, content, now) ==
    LET ex == ExtractHeadLines(Lines(content))
        nm == NormalizeHeadLines(ex.head_lines)
        panic == IF ex.panic THEN "split_once"
                 ELSE IF nm.panic
                         \/ \E i \in 1..Len(nm.head_lines) :
                                HeadLine_to_md(nm.head_lines[i]).panic
                 THEN "overflow"
                 ELSE "none"
        result == IF panic = "none" THEN TocResult(nm.head_lines, now) ELSE <<>>
        rep == IF panic = "none" THEN TocRep(content, result) ELSE content
    IN [path |-> path, read |-> content, panic |-> panic,
        extracted |-> ex.head_lines,
        head_lines |-> IF ex.panic THEN <<>> ELSE nm.head_lines,
        root |-> Directory(<<>>, <<>>), result |-> result,
        rep |-> rep, wrote |-> rep # content]

---------------------------------------------------------------------------
(* process_md_fs, main.rs:297-357 (gfs).                                   *)

\* main.rs:307-316
pre_suffix(md) ==
    <<GFS_BEGIN_PREFIX, "\n">> \o md \o <<"\n", GFS_END_PREFIX, "\n">>

\* main.rs:320-327
GfsEmbed(content, block) ==
    IF Contains(content, <<GFS_FIRST_PREFIX>>)
    THEN Replace(content, GFS_FIRST_PREFIX, block)
    ELSE RegexReplace(content, GFS_BEGIN_PREFIX, GFS_END_PREFIX, block)

\* the inner process_md, main.rs:298-339
process_md_gfs(root, path, content, dir_only) ==
    LET result == pre_suffix(to_md(root, dir_only))
        embed == GfsEmbed(content, result)
    IN [path |-> path, read |-> content, panic |-> "none",
        extracted |-> <<>>, head_lines |-> <<>>,
        root |-> root, result |-> result,
        rep |-> embed, wrote |-> embed # content]

\* main.rs:341-356: the (directory, markdown file) pairs in processing order
RECURSIVE GfsJobs(_)
RECURSIVE GfsJobsIn(_, _)
GfsJobsIn(e, i) ==
    IF i > Len(e.d) THEN <<>>
    ELSE (IF e.d[i].tag = "File"
          THEN (IF e.d[i].is_md THEN <<[root |-> e, file |-> e.d[i]]>> ELSE <<>>)
          ELSE GfsJobs(e.d[i]))
         \o GfsJobsIn(e, i + 1)
GfsJobs(e) == GfsJobsIn(e, 1)

---------------------------------------------------------------------------
(* main, main.rs:233-295: one run of the program.                          *)

RootPath == <<".", "/">>

\* main.rs:239-245
ForbiddenPaths(ignore_lines) == ignore_lines \o << <<".git">> >>

\* main.rs:248-249: [panic, indexed_fs]
IndexRoot(dir, ignore_lines) ==
    LET ix == index_filesystem(dir, ForbiddenPaths(ignore_lines), RootPath)
    IN [panic |-> ix.panic, indexed_fs |-> Directory(ix.root_vec, RootPath)]

\* main.rs:257-261: the files in get_markdowns order; a panic ends the run
RECURSIVE GtocFiles(_, _, _)
GtocFiles(mds, d, now) ==
    IF mds = <<>> THEN <<>>
    ELSE LET r == process_md(Head(mds).path, d[Head(mds).path], now)
         IN IF r.panic # "none" THEN <<r>>
            ELSE <<r>> \o GtocFiles(Tail(mds), d, now)

\* main.rs:273: process_md_fs over the tree
GfsFiles(indexed_fs, d, dir_only) ==
    LET jobs == GfsJobs(indexed_fs)
    IN [i \in 1..Len(jobs) |->
           process_md_gfs(jobs[i].root, jobs[i].file.path,
                          d[jobs[i].file.path], dir_only)]

\* fs::write of every file whose computed text differs, main.rs:217-218, 329-330
Written(d, files) ==
    [p \in DOMAIN d |->
        IF \E i \in 1..Len(files) : files[i].path = p /\ files[i].wrote
        THEN LET i == CHOOSE i \in 1..Len(files) : files[i].path = p
             IN files[i].rep
        ELSE d[p]]

Gtoc(now) ==
    /\ run < MaxRuns
    /\ LET ix == IndexRoot(fs, gitignore)
           files == IF ix.panic THEN <<>>
                    ELSE GtocFiles(get_markdowns(ix.indexed_fs), disk, now)
       IN /\ disk' = Written(disk, files)
          /\ report' = [cmd |-> "gtoc", dir_only |-> FALSE, now |-> now,
                        panic |-> ix.panic, indexed_fs |-> ix.indexed_fs,
                        files |-> files]
    /\ clock' = now
    /\ run' = run + 1
    /\ UNCHANGED <<fs, gitignore, overflow_checks>>

Gfs(dir_only) ==
    /\ run < MaxRuns
    /\ LET ix == IndexRoot(fs, gitignore)
           files == IF ix.panic THEN <<>>
                    ELSE GfsFiles(ix.indexed_fs, disk, dir_only)
       IN /\ disk' = Written(disk, files)
          /\ report' = [cmd |-> "gfs", dir_only |-> dir_only, now |-> clock,
                        panic |-> ix.panic, indexed_fs |-> ix.indexed_fs,
                        files |-> files]
    /\ run' = run + 1
    /\ UNCHANGED <<fs, gitignore, overflow_checks, clock>>

Next ==
    \/ \E now \in clock..MaxClock : Gtoc(now)
    \/ \E dir_only \in BOOLEAN : Gfs(dir_only)

---------------------------------------------------------------------------
(* The initial states: a directory tree, an ignore list, the markdown      *)
(* files' texts, a build.                                                  *)

Entry(kind, name, entries) == [kind |-> kind, name |-> name, entries |-> entries]
MdFile == Entry("file", <<"r", ".md">>, <<>>)

\* an entry's name as the filesystem holds it: no two entries of a directory
\* share one ("err" and "badname" entries have no name the model reads)
Named(e) == e.kind \notin {"err", "badname"}
DistinctNames(l) ==
    \A i, j \in 1..Len(l) :
        (i < j /\ Named(l[i]) /\ Named(l[j])) => l[i].name # l[j].name

\* the listings of at most n entries over S
Listings(S, n) ==
    {l \in UNION {[1..k -> S] : k \in 0..n} : DistinctNames(l)}

FileNames == {<<"a">>, <<"x">>, <<"a", "x">>, <<"r", ".md">>}
Leaves ==
    {Entry("file", n, <<>>) : n \in FileNames}
    \cup {Entry("err", <<>>, <<>>), Entry("badname", <<>>, <<>>),
          Entry("badtype", <<"a">>, <<>>), Entry("nolist", <<"d">>, <<>>),
          Entry("dir", <<"d">>, <<>>)}
SubLeaves ==
    {Entry("file", <<"a">>, <<>>), Entry("file", <<"a", "x">>, <<>>), MdFile,
     Entry("badtype", <<"a">>, <<>>), Entry("dir", <<"d">>, <<>>)}
SubDirs(n) == {Entry("dir", <<"d">>, l) : l \in Listings(SubLeaves, n)}
RootListings(n) == Listings(Leaves \cup SubDirs(n), n)

IgnoreLists == {<<>>, << <<"x">> >>, << <<"a", "x">> >>}

\* the paths of the markdown files of a listing
RECURSIVE MdPaths(_, _)
MdPaths(dir, dir_path) ==
    UNION {IF dir[i].kind = "dir"
           THEN MdPaths(dir[i].entries, EntryPath(dir_path, dir[i].name))
           ELSE IF dir[i].kind = "file" /\ EndsWith(dir[i].name, <<".md">>)
           THEN {EntryPath(dir_path, dir[i].name)}
           ELSE {} : i \in 1..Len(dir)}

NoReport ==
    [cmd |-> "none", dir_only |-> FALSE, now |-> 0, panic |-> FALSE,
     indexed_fs |-> Directory(<<>>, RootPath), files |-> <<>>]

\* every markdown file holds both single-use markers
BothMarkers == <<GFS_FIRST_PREFIX, "\n", TOC_FIRST_PREFIX>>

InitIndex ==
    /\ fs \in RootListings(MaxEntries)
    /\ gitignore \in IgnoreLists
    /\ disk = [p \in MdPaths(fs, RootPath) |-> BothMarkers]
    /\ overflow_checks = TRUE  \* no file holds a heading: no u8 is computed
    /\ clock = 1
    /\ run = 0
    /\ report = NoReport

SpecIndex == InitIndex /\ [][Next]_vars

\* the lines a document is made of
LineTemplates ==
    {<<"a">>,
     <<"#", " ", "A">>,
     <<"#", "#", " ", "a", " ", "A">>,
     <<"#", "a">>,
     <<"#", "a", " ", "a">>,
     <<"#", "#", " ", "$", "1">>,
     <<"#", "#", " ", TOC_FIRST_PREFIX>>,
     <<TOC_FIRST_PREFIX>>,
     <<"a", TOC_BEGIN_PREFIX, "a", TOC_END_PREFIX, "a">>,
     <<TOC_BEGIN_PREFIX>>,
     <<TOC_END_PREFIX>>,
     <<GFS_FIRST_PREFIX>>,
     <<"a", GFS_BEGIN_PREFIX, "a", GFS_END_PREFIX, "a">>,
     <<GFS_BEGIN_PREFIX>>,
     <<GFS_END_PREFIX>>}

\* the documents of at most n lines
Docs(n) ==
    {Join(ls, <<"\n">>) : ls \in UNION {[1..k -> LineTemplates] : k \in 0..n}}

\* the directory trees the documents are rewritten in
DocListings ==
    {<<MdFile>>,
     <<Entry("dir", <<"d">>, <<Entry("dir", <<"d">>, <<>>), MdFile>>),
       Entry("file", <<"a">>, <<>>)>>,
     <<Entry("dir", <<"$", "1">>, <<>>), MdFile>>}

Init ==
    /\ fs \in DocListings
    /\ gitignore = <<>>
    /\ \E doc \in Docs(MaxLines) : disk = [p \in MdPaths(fs, RootPath) |-> doc]
    /\ overflow_checks \in BOOLEAN
    /\ clock = 1
    /\ run = 0
    /\ report = NoReport

Spec == Init /\ [][Next]_vars

---------------------------------------------------------------------------
(* Properties of the indexer and of the tree rendering (SpecIndex).        *)

Indexed == report.cmd # "none" /\ ~report.panic

\* e's File children precede its Directory children, at e and below it
RECURSIVE FilesFirst(_)
FilesFirst(e) ==
    IF e.tag = "File" THEN TRUE
    ELSE /\ \A i, j \in 1..Len(e.d) : i < j => ~(is_dir(e.d[i]) /\ ~is_dir(e.d[j]))
         /\ \A i \in 1..Len(e.d) : FilesFirst(e.d[i])

\* C1: after indexing, at every Directory of the tree, the root included,
\* every File child precedes every Directory child.
C1_FilesBeforeDirectories == Indexed => FilesFirst(report.indexed_fs)

\* name contains one of the ignore strings
NameContainsIgnored(name, forbidden_paths) ==
    \E i \in 1..Len(forbidden_paths) : Contains(name, forbidden_paths[i])

\* a file or directory of the listing is in the tree exactly if its name
\* contains no ignore string, at this directory and below it
RECURSIVE OmittedIffIgnored(_, _, _)
OmittedIffIgnored(dir, nodes, forbidden_paths) ==
    \A i \in 1..Len(dir) :
        dir[i].kind \in {"file", "dir"} =>
            LET at == {k \in 1..Len(nodes) : nodes[k].name = dir[i].name}
            IN /\ (at = {}) <=> NameContainsIgnored(dir[i].name, forbidden_paths)
               /\ (at # {} /\ dir[i].kind = "dir") =>
                      OmittedIffIgnored(dir[i].entries, nodes[CHOOSE k \in at : TRUE].d,
                                        forbidden_paths)

\* C2: an entry is omitted from the tree if and only if its name contains an
\* ignore-list string (ignoring "x" omits "x" and "ax").
C2_IgnoreIsSubstringOfName ==
    Indexed => OmittedIffIgnored(fs, report.indexed_fs.d, ForbiddenPaths(gitignore))

Count(s, tok) == Cardinality({i \in 1..Len(s) : s[i] = tok})

\* how many Directory children the directories of e have, e included
RECURSIVE DirChildren(_)
RECURSIVE SumDirChildren(_, _)
SumDirChildren(d, i) ==
    IF i > Len(d) THEN 0 ELSE DirChildren(d[i]) + SumDirChildren(d, i + 1)
DirChildren(e) ==
    IF e.tag = "File" THEN 0
    ELSE Cardinality({i \in 1..Len(e.d) : is_dir(e.d[i])}) + SumDirChildren(e.d, 1)

\* how many directories of e, e included, have a Directory child
RECURSIVE DirsWithDirChild(_)
RECURSIVE SumDirsWithDirChild(_, _)
SumDirsWithDirChild(d, i) ==
    IF i > Len(d) THEN 0 ELSE DirsWithDirChild(d[i]) + SumDirsWithDirChild(d, i + 1)
DirsWithDirChild(e) ==
    IF e.tag = "File" THEN 0
    ELSE (IF \E i \in 1..Len(e.d) : is_dir(e.d[i]) THEN 1 ELSE 0)
         + SumDirsWithDirChild(e.d, 1)

\* C5: a directories-only rendering holds no File line, and at every
\* Directory the last rendered child, and only that one, has the terminal
\* connector: one per directory that renders a child, the branch connector
\* for all other rendered children.
C5_DirOnlyConnectors ==
    (report.cmd = "gfs" /\ report.dir_only) =>
        \A i \in 1..Len(report.files) :
            LET r == report.files[i]
            IN /\ Count(r.result, PAGE) = 0
               /\ Count(r.result, ELBOW) = DirsWithDirChild(r.root)
               /\ Count(r.result, TEE) = DirChildren(r.root) - DirsWithDirChild(r.root)

\* C9: an entry whose raw entry, type or name cannot be determined is skipped:
\* indexing does not abort, and the other entries of the directory are in the
\* tree.
C9_BadEntriesAreSkipped ==
    report.cmd # "none" =>
        /\ ~report.panic
        /\ \A i \in 1..Len(fs) :
               (fs[i].kind = "file" /\ ~Forbidden(ForbiddenPaths(gitignore), fs[i].name))
               => \E k \in 1..Len(report.indexed_fs.d) :
                      report.indexed_fs.d[k].name = fs[i].name

---------------------------------------------------------------------------
(* Properties of the heading extractor (Spec).                             *)

\* how many "#" open the line
RECURSIVE LeadingHashes(_)
LeadingHashes(line) ==
    IF line # <<>> /\ Head(line) = "#" THEN 1 + LeadingHashes(Tail(line)) ELSE 0

\* a line of one or more "#" followed by a space
IsHeadingLine(line) ==
    LET k == LeadingHashes(line)
    IN k >= 1 /\ k < Len(line) /\ line[k + 1] = " "

\* one Heading Line per heading line, in document order: the level is the
\* number of leading "#", the title what follows the first space
HeadingsOf(ls) ==
    LET hs == SelectSeq(ls, IsHeadingLine)
    IN [i \in 1..Len(hs) |->
           [intend |-> LeadingHashes(hs[i]),
            title |-> SubSeq(hs[i], LeadingHashes(hs[i]) + 2, Len(hs[i]))]]

\* C7: extraction yields exactly the Heading Lines of the lines made of "#"s
\* and a space, in order, and a line that starts with "#" without being of
\* that form yields none and does not abort processing.
C7_HeadingExtraction ==
    report.cmd = "gtoc" =>
        \A i \in 1..Len(report.files) :
            LET r == report.files[i]
            IN /\ r.panic # "split_once"
               /\ r.extracted = HeadingsOf(Lines(r.read))

\* hs without its one level-1 heading, the other levels one less
WithoutTitle(hs) ==
    LET k == CHOOSE i \in 1..Len(hs) : hs[i].intend = 1
    IN [i \in 1..(Len(hs) - 1) |->
           LET h == hs[IF i < k THEN i ELSE i + 1]
           IN [intend |-> h.intend - 1, title |-> h.title]]

\* C3: with exactly one level-1 heading, that heading is removed and every
\* other level is one less (so all stay >= 1); otherwise nothing changes.
C3_HeadingNormalization ==
    report.cmd = "gtoc" =>
        \A i \in 1..Len(report.files) :
            LET r == report.files[i]
            IN r.panic # "split_once" =>
                   /\ r.head_lines = IF CountH1(r.extracted) = 1
                                     THEN WithoutTitle(r.extracted)
                                     ELSE r.extracted
                   /\ \A k \in 1..Len(r.head_lines) : r.head_lines[k].intend >= 1

---------------------------------------------------------------------------
(* Properties of the block rewriters (Spec).                               *)

FirstPrefix(cmd) == IF cmd = "gtoc" THEN TOC_FIRST_PREFIX ELSE GFS_FIRST_PREFIX
BeginPrefix(cmd) == IF cmd = "gtoc" THEN TOC_BEGIN_PREFIX ELSE GFS_BEGIN_PREFIX
EndPrefix(cmd) == IF cmd = "gtoc" THEN TOC_END_PREFIX ELSE GFS_END_PREFIX

\* the text holds a begin marker with an end marker somewhere after it
HasRegion(text, cmd) ==
    \E b, e \in 1..Len(text) :
        b < e /\ text[b] = BeginPrefix(cmd) /\ text[e] = EndPrefix(cmd)

\* C6: a completed rewrite of a document that holds the feature's single-use
\* marker leaves a document without that marker, whatever was rendered.
C6_SingleUseMarkerConsumed ==
    \A i \in 1..Len(report.files) :
        LET r == report.files[i]
        IN (r.panic = "none" /\ Contains(r.read, <<FirstPrefix(report.cmd)>>))
           => ~Contains(disk[r.path], <<FirstPrefix(report.cmd)>>)

\* the text holds exactly one placeholder of the feature: its single-use
\* marker once, or one begin marker with one end marker after it
OnePlaceholder(text, cmd) ==
    \/ /\ Count(text, FirstPrefix(cmd)) = 1
       /\ Count(text, BeginPrefix(cmd)) = 0
       /\ Count(text, EndPrefix(cmd)) = 0
    \/ /\ Count(text, FirstPrefix(cmd)) = 0
       /\ Count(text, BeginPrefix(cmd)) = 1
       /\ Count(text, EndPrefix(cmd)) = 1
       /\ HasRegion(text, cmd)

\* this step is a run of cmd right after a run of cmd
Again(cmd) == report.cmd = cmd /\ report'.cmd = cmd /\ run' = run + 1

\* C4: a second gfs run on a document that held one gfs placeholder, the
\* filesystem unchanged, computes the text it read and writes nothing.
C4_GfsIdempotent ==
    [][(Again("gfs") /\ report'.dir_only = report.dir_only) =>
          \A i \in 1..Len(report.files), j \in 1..Len(report'.files) :
              LET r1 == report.files[i]
                  r2 == report'.files[j]
              IN (/\ r1.path = r2.path
                  /\ OnePlaceholder(r1.read, "gfs"))
                 => (r2.rep = r2.read /\ ~r2.wrote)]_vars

\* C8: a second gtoc run on a document that held one TOC placeholder, with the
\* headings unchanged and the same rendered timestamp, computes the text it
\* read and writes nothing.
C8_GtocIdempotent ==
    [][(Again("gtoc") /\ report'.now = report.now) =>
          \A i \in 1..Len(report.files), j \in 1..Len(report'.files) :
              LET r1 == report.files[i]
                  r2 == report'.files[j]
              IN (/\ r1.path = r2.path
                  /\ r1.panic = "none"
                  /\ r2.extracted = r1.extracted
                  /\ OnePlaceholder(r1.read, "gtoc"))
                 => (r2.panic = "none" /\ r2.rep = r2.read /\ ~r2.wrote)]_vars

---------------------------------------------------------------------------
(* The frame of a rewrite (SpecFrame).                                     *)

FrameTemplates ==
    {<<"a">>,
     <<"#", "#", " ", "$", "1">>,
     <<TOC_FIRST_PREFIX>>,
     <<"a", TOC_BEGIN_PREFIX, "a", TOC_END_PREFIX, "a">>,
     <<TOC_BEGIN_PREFIX>>,
     <<GFS_FIRST_PREFIX>>,
     <<"a", GFS_BEGIN_PREFIX, "a", GFS_END_PREFIX, "a">>,
     <<GFS_BEGIN_PREFIX>>}

FrameDocs(n) ==
    {Join(ls, <<"\n">>) : ls \in UNION {[1..k -> FrameTemplates] : k \in 0..n}}

InitFrame ==
    /\ fs = <<Entry("dir", <<"$", "1">>, <<>>), MdFile>>
    /\ gitignore = <<>>
    /\ \E doc \in FrameDocs(MaxLines) : disk = [p \in MdPaths(fs, RootPath) |-> doc]
    /\ overflow_checks \in BOOLEAN
    /\ clock = 1
    /\ run = 0
    /\ report = NoReport

SpecFrame == InitFrame /\ [][Next]_vars

\* C10: a document with neither the feature's single-use marker nor a
\* begin...end region is computed unchanged and not written; a file is
\* written only when the computed text differs from the text read; and when
\* a region is replaced, the text before the first begin marker and the text
\* after the next end marker stay as they were (with the rendered block
\* between them, when the block holds no "$").
C10_RewriteFrame ==
    \A i \in 1..Len(report.files) :
        LET r == report.files[i]
            b == Find(r.read, BeginPrefix(report.cmd), 1)
            e == IF b = 0 THEN 0 ELSE Find(r.read, EndPrefix(report.cmd), b + 1)
            before == SubSeq(r.read, 1, b - 1)
            after == SubSeq(r.read, e + 1, Len(r.read))
            marker == Contains(r.read, <<FirstPrefix(report.cmd)>>)
        IN /\ r.wrote => r.rep # r.read
           /\ disk[r.path] = IF r.wrote THEN r.rep ELSE r.read
           /\ (~marker /\ ~HasRegion(r.read, report.cmd)) => (r.rep = r.read /\ ~r.wrote)
           /\ (~marker /\ HasRegion(r.read, report.cmd) /\ r.panic = "none") =>
                  /\ Len(r.rep) >= Len(before) + Len(after)
                  /\ SubSeq(r.rep, 1, Len(before)) = before
                  /\ SubSeq(r.rep, Len(r.rep) - Len(after) + 1, Len(r.rep)) = after
                  /\ ~Contains(r.result, <<"$">>) => r.rep = before \o r.result \o after

\* a region with text before and after it was replaced and the file written
C10_Witness ==
    \E i \in 1..Len(report.files) :
        LET r == report.files[i]
            b == Find(r.read, BeginPrefix(report.cmd), 1)
            e == IF b = 0 THEN 0 ELSE Find(r.read, EndPrefix(report.cmd), b + 1)
        IN /\ ~Contains(r.read, <<FirstPrefix(report.cmd)>>)
           /\ HasRegion(r.read, report.cmd)
           /\ Count(r.read, EndPrefix(report.cmd)) > 1
           /\ b > 1 /\ e < Len(r.read)
           /\ r.wrote

=============================================================================
